---- MODULE Spec2Model ----
(***************************************************************************)
(* Zero-crossing estimation of the plotting scripts.                       *)
(*                                                                         *)
(*   zero_crossings_linear_interp  (zero_crossings_sigmaCumEnd_RMST.py)    *)
(*   first_zero_crossing_linear    (make_fig23.py)                         *)
(*   last_zero_crossing            (make_fig7.py)                          *)
(*                                                                         *)
(* The scripts compute on binary floating point numbers (numpy float64).   *)
(* The model keeps the arithmetic of that format and scales its width      *)
(* down: a number is an integer count of quanta (one quantum is            *)
(* 2^-FracBits), it carries at most Precision significant bits, and every  *)
(* operation rounds its exact result to the nearest such number, ties to   *)
(* even.  Counts below 2^Precision are all representable and equally       *)
(* spaced, as the subnormal numbers of the format are, so a product may    *)
(* underflow to zero.  There is no largest number: overflow, infinities    *)
(* and NaN are outside the model.                                          *)
(***************************************************************************)
EXTENDS Integers, Sequences, FiniteSets, TLC

VARIABLES x, y, called, repeats, all_out, first_zc, last_zc, raised,
          zc_ae_rmst, zc_fig6, zc_closeup

vars == <<x, y, called, repeats, all_out, first_zc, last_zc, raised,
          zc_ae_rmst, zc_fig6, zc_closeup>>

\* The results of the other first-crossing scripts.
others == <<zc_ae_rmst, zc_fig6, zc_closeup>>

(***************************************************************************)
(* Bounds of the model.                                                    *)
(***************************************************************************)
Precision == 3
FracBits == 2
MaxLen == 3
MaxRepeats == 1

RECURSIVE Pow2(_)
Pow2(n) == IF n = 0 THEN 1 ELSE 2 * Pow2(n - 1)

\* The number 1.0, in quanta.
Scale == Pow2(FracBits)

(***************************************************************************)
(* Floating point arithmetic.                                              *)
(***************************************************************************)
RECURSIVE Spacing(_, _, _)
\* The spacing of the representable numbers around n/d (n >= 0, d > 0).
Spacing(n, d, step) ==
    IF n >= Pow2(Precision) * step * d THEN Spacing(n, d, 2 * step) ELSE step

\* n/d (n >= 0, d > 0) rounded to the nearest representable number, ties to
\* the even significand.
RoundMag(n, d) ==
    LET step == Spacing(n, d, 1)
        q    == n \div (step * d)
        r    == n % (step * d)
        up   == 2 * r > step * d \/ (2 * r = step * d /\ q % 2 = 1)
    IN  (IF up THEN q + 1 ELSE q) * step

\* The exact quotient n/d (d # 0), in quanta, rounded.
Rnd(n, d) ==
    LET nn == IF d < 0 THEN -n ELSE n
        dd == IF d < 0 THEN -d ELSE d
    IN  IF nn < 0 THEN -RoundMag(-nn, dd) ELSE RoundMag(nn, dd)

Representable(k) == Rnd(k, 1) = k

\* What a division by zero gives (an infinity or NaN, with a warning and no
\* exception): one value, beyond every number of the model.
NotFinite == Pow2(30)

FAdd(a, b) == IF a = NotFinite \/ b = NotFinite THEN NotFinite ELSE Rnd(a + b, 1)
FSub(a, b) == Rnd(a - b, 1)
FMul(a, b) == Rnd(a * b, Scale)
FDiv(a, b) == IF b = 0 THEN NotFinite ELSE Rnd(a * Scale, b)
FNeg(a) == -a

\* np.asarray(s, dtype=float): every element converted to the format.
AsFloatArray(s) == [k \in DOMAIN s |-> Rnd(s[k], 1)]

(***************************************************************************)
(* The steps the three scans share.                                        *)
(***************************************************************************)
\* Python's s[i], i counted from 0.
At(s, i) == s[i + 1]

\* s[i] raises IndexError outside 0..len(s)-1 (the scans never index below 0).
InRange(s, i) == i >= 0 /\ i < Len(s)

\* range(len(y) - 1): the scan visits i = 0 .. RangeEnd(y) - 1.
RangeEndWholeSeries(s) == Len(s)
RangeEnd(s) == Len(s) - 1

\* if yi == 0
IsZeroNever(yi) == FALSE
IsZero(yi) == yi = 0

\* if yi * yj < 0
SignFlipOrZero(yi, yj) == FMul(yi, yj) <= 0
SignFlipInverted(yi, yj) == FMul(yi, yj) > 0
SignFlip(yi, yj) == FMul(yi, yj) < 0

\* xi + (xj - xi) * (-yi) / (yj - yi), evaluated left to right.
InterpNoOffset(xi, xj, yi, yj) ==
    FDiv(FMul(FSub(xj, xi), FNeg(yi)), FSub(yj, yi))
Interp(xi, xj, yi, yj) ==
    FAdd(xi, FDiv(FMul(FSub(xj, xi), FNeg(yi)), FSub(yj, yi)))

\* A scan ends by returning a value or by raising IndexError.
Returned(v) == [raised |-> FALSE, val |-> v]
Raised(v) == [raised |-> TRUE, val |-> v]

\* Python's None, and a float result, as a sequence of at most one number.
None == <<>>
Some(v) == <<v>>

(***************************************************************************)
(* zero_crossings_linear_interp: every crossing, as (x0, i); kind names    *)
(* the branch that appended it.                                            *)
(***************************************************************************)
\* out = []
StaleOut(prev) == prev
FreshOut(prev) == <<>>

RECURSIVE ScanAll(_, _, _, _)
ScanAll(xs, ys, i, out) ==
    IF i >= RangeEnd(ys) THEN Returned(out)
    ELSE IF ~InRange(ys, i + 1) \/ ~InRange(xs, i + 1) THEN Raised(out)
    ELSE LET yi == At(ys, i)
             yj == At(ys, i + 1)
             xi == At(xs, i)
             xj == At(xs, i + 1)
         IN  IF IsZero(yi)
             THEN ScanAll(xs, ys, i + 1,
                          Append(out, [x0 |-> xi, i |-> i, kind |-> "EXACT"]))
             ELSE IF SignFlip(yi, yj)
             THEN ScanAll(xs, ys, i + 1,
                          Append(out, [x0 |-> Interp(xi, xj, yi, yj), i |-> i,
                                       kind |-> "INTERPOLATED"]))
             ELSE ScanAll(xs, ys, i + 1, out)

zero_crossings_linear_interp(xs, ys, prev) == ScanAll(xs, ys, 0, FreshOut(prev))

(***************************************************************************)
(* first_zero_crossing_linear: returns at the first hit.                   *)
(***************************************************************************)
RECURSIVE ScanFirst(_, _, _)
ScanFirst(xs, ys, i) ==
    IF i >= RangeEnd(ys) THEN Returned(None)
    ELSE IF ~InRange(ys, i + 1) \/ ~InRange(xs, i + 1) THEN Raised(None)
    ELSE LET yi == At(ys, i)
             yj == At(ys, i + 1)
             xi == At(xs, i)
             xj == At(xs, i + 1)
         IN  IF IsZero(yi) THEN Returned(Some(xi))
             ELSE IF SignFlip(yi, yj) THEN Returned(Some(Interp(xi, xj, yi, yj)))
             ELSE ScanFirst(xs, ys, i + 1)

first_zero_crossing_skip_first(xs, ys) == ScanFirst(xs, ys, 1)
first_zero_crossing_linear(xs, ys) == ScanFirst(xs, ys, 0)

(***************************************************************************)
(* last_zero_crossing: overwrites zc at every hit.                         *)
(***************************************************************************)
\* zc = None
FreshZc(prev) == None

RECURSIVE ScanLast(_, _, _, _)
ScanLast(xs, ys, i, zc) ==
    IF i >= RangeEnd(ys) THEN Returned(zc)
    ELSE IF ~InRange(ys, i + 1) \/ ~InRange(xs, i + 1) THEN Raised(zc)
    ELSE LET yi == At(ys, i)
             yj == At(ys, i + 1)
             xi == At(xs, i)
             xj == At(xs, i + 1)
         IN  IF IsZero(yi) THEN ScanLast(xs, ys, i + 1, Some(xi))
             ELSE IF SignFlip(yi, yj)
             THEN ScanLast(xs, ys, i + 1, Some(Interp(xi, xj, yi, yj)))
             ELSE ScanLast(xs, ys, i + 1, zc)

last_zero_crossing_keep_first(xs, ys, prev) == ScanFirst(xs, ys, 0)
last_zero_crossing(xs, ys, prev) ==
    ScanLast(AsFloatArray(xs), AsFloatArray(ys), 0, FreshZc(prev))

(***************************************************************************)
(* The other first-crossing scans: first_zero_crossing_linear of           *)
(* zero_crossings_AE_RMST.py, first_zero_crossing of make_fig6.py (which   *)
(* converts its arguments first) and the loop of                           *)
(* zero_crossing_AE_closeup.py (zc = None, assigned before a break).       *)
(***************************************************************************)
RECURSIVE ScanFirstAeRmst(_, _, _)
ScanFirstAeRmst(xs, ys, i) ==
    IF i >= RangeEnd(ys) THEN Returned(None)
    ELSE IF ~InRange(ys, i + 1) \/ ~InRange(xs, i + 1) THEN Raised(None)
    ELSE LET yi == At(ys, i)
             yj == At(ys, i + 1)
             xi == At(xs, i)
             xj == At(xs, i + 1)
         IN  IF IsZero(yi) THEN Returned(Some(xi))
             ELSE IF SignFlip(yi, yj) THEN Returned(Some(Interp(xi, xj, yi, yj)))
             ELSE ScanFirstAeRmst(xs, ys, i + 1)

first_zero_crossing_linear_ae_rmst(xs, ys) == ScanFirstAeRmst(xs, ys, 0)

RECURSIVE ScanFirstFig6(_, _, _)
ScanFirstFig6(xs, ys, i) ==
    IF i >= RangeEnd(ys) THEN Returned(None)
    ELSE IF ~InRange(ys, i + 1) \/ ~InRange(xs, i + 1) THEN Raised(None)
    ELSE LET yi == At(ys, i)
             yj == At(ys, i + 1)
             xi == At(xs, i)
             xj == At(xs, i + 1)
         IN  IF IsZero(yi) THEN Returned(Some(xi))
             ELSE IF SignFlip(yi, yj) THEN Returned(Some(Interp(xi, xj, yi, yj)))
             ELSE ScanFirstFig6(xs, ys, i + 1)

first_zero_crossing(xs, ys) ==
    ScanFirstFig6(AsFloatArray(xs), AsFloatArray(ys), 0)

\* The loop of the close-up script: a hit assigns zc and breaks.
RECURSIVE ScanCloseup(_, _, _, _)
ScanCloseup(xs, ys, i, zc) ==
    IF i >= RangeEnd(ys) THEN Returned(zc)
    ELSE IF ~InRange(ys, i + 1) \/ ~InRange(xs, i + 1) THEN Raised(zc)
    ELSE LET yi == At(ys, i)
             yj == At(ys, i + 1)
             xi == At(xs, i)
             xj == At(xs, i + 1)
         IN  IF IsZero(yi) THEN Returned(Some(xi))
             ELSE IF SignFlip(yi, yj) THEN Returned(Some(Interp(xi, xj, yi, yj)))
             ELSE ScanCloseup(xs, ys, i + 1, zc)

closeup_zc_without_break(xs, ys) == ScanLast(xs, ys, 0, None)
closeup_zc(xs, ys) == ScanCloseup(xs, ys, 0, None)

(***************************************************************************)
(* The series the callers build: x sorted ascending (sort_values), x and y *)
(* columns of one table, hence of one length.                              *)
(***************************************************************************)
\* x values of different magnitude, so that their differences and sums round;
\* y values: zero, the smallest magnitude, and 2.0.
XVals == {k \in {3, 14, 16} : Representable(k)}
YVals == {k \in {0, 1, -1, 2 * Scale, -(2 * Scale)} : Representable(k)}

Sorted(s) == \A k \in 1..(Len(s) - 1) : s[k] <= s[k + 1]

SeriesOfLen(n) ==
    {s \in [1..n -> XVals] \X [1..n -> YVals] : Sorted(s[1])}

\* The documented examples: x = 0, 1, 2, 3 with y = -2, 2, -2, 2; two
\* samples (a, -1), (b, +1) with b > a; x = 0, 1, 2 with y = -1, 0, 1.
ExampleX == <<0, Scale, 2 * Scale, 3 * Scale>>
ExampleY == <<-(2 * Scale), 2 * Scale, -(2 * Scale), 2 * Scale>>
TwoSampleY == <<-Scale, Scale>>
TwoSampleSeries ==
    {<<<<a, b>>, TwoSampleY>> : a, b \in XVals \cup {0, Scale}} 
ExactZeroX == <<0, Scale, 2 * Scale>>
ExactZeroY == <<-Scale, 0, Scale>>

Examples ==
    {<<ExampleX, ExampleY>>, <<ExactZeroX, ExactZeroY>>}
        \cup {s \in TwoSampleSeries : s[1][1] < s[1][2]}

Init ==
    /\ \E s \in UNION {SeriesOfLen(n) : n \in 0..MaxLen} \cup Examples :
           x = s[1] /\ y = s[2]
    /\ called = {}
    /\ repeats = 0
    /\ all_out = <<>>
    /\ first_zc = None
    /\ last_zc = None
    /\ raised = FALSE
    /\ zc_ae_rmst = None
    /\ zc_fig6 = None
    /\ zc_closeup = None

\* A script calls a function once per series; the model lets it call again,
\* MaxRepeats times in all.
MayCall(mode) == ~raised /\ (mode \in called => repeats < MaxRepeats)
Count(mode) == IF mode \in called THEN repeats + 1 ELSE repeats

CallAll ==
    LET r == zero_crossings_linear_interp(x, y, all_out)
    IN  /\ MayCall("ALL")
        /\ raised' = r.raised
        /\ all_out' = IF r.raised THEN all_out ELSE r.val
        /\ called' = called \cup {"ALL"}
        /\ repeats' = Count("ALL")
        /\ UNCHANGED <<x, y, first_zc, last_zc, others>>

CallFirst ==
    LET r == first_zero_crossing_linear(x, y)
    IN  /\ MayCall("FIRST")
        /\ raised' = r.raised
        /\ first_zc' = IF r.raised THEN first_zc ELSE r.val
        /\ called' = called \cup {"FIRST"}
        /\ repeats' = Count("FIRST")
        /\ UNCHANGED <<x, y, all_out, last_zc, others>>

CallLast ==
    LET r == last_zero_crossing(x, y, last_zc)
    IN  /\ MayCall("LAST")
        /\ raised' = r.raised
        /\ last_zc' = IF r.raised THEN last_zc ELSE r.val
        /\ called' = called \cup {"LAST"}
        /\ repeats' = Count("LAST")
        /\ UNCHANGED <<x, y, all_out, first_zc, others>>

Next == CallAll \/ CallFirst \/ CallLast

Spec == Init /\ [][Next]_vars

(***************************************************************************)
(* The four first-crossing scripts, each run once on the series.           *)
(***************************************************************************)
Once(mode) == ~raised /\ mode \notin called

CallFirstFig23 == Once("FIRST") /\ CallFirst

CallFirstAeRmst ==
    LET r == first_zero_crossing_linear_ae_rmst(x, y)
    IN  /\ Once("FIRST_AE_RMST")
        /\ raised' = r.raised
        /\ zc_ae_rmst' = IF r.raised THEN zc_ae_rmst ELSE r.val
        /\ called' = called \cup {"FIRST_AE_RMST"}
        /\ UNCHANGED <<x, y, repeats, all_out, first_zc, last_zc,
                       zc_fig6, zc_closeup>>

CallFirstFig6 ==
    LET r == first_zero_crossing(x, y)
    IN  /\ Once("FIRST_FIG6")
        /\ raised' = r.raised
        /\ zc_fig6' = IF r.raised THEN zc_fig6 ELSE r.val
        /\ called' = called \cup {"FIRST_FIG6"}
        /\ UNCHANGED <<x, y, repeats, all_out, first_zc, last_zc,
                       zc_ae_rmst, zc_closeup>>

RunCloseup ==
    LET r == closeup_zc(x, y)
    IN  /\ Once("FIRST_CLOSEUP")
        /\ raised' = r.raised
        /\ zc_closeup' = IF r.raised THEN zc_closeup ELSE r.val
        /\ called' = called \cup {"FIRST_CLOSEUP"}
        /\ UNCHANGED <<x, y, repeats, all_out, first_zc, last_zc,
                       zc_ae_rmst, zc_fig6>>

NextFirst == CallFirstFig23 \/ CallFirstAeRmst \/ CallFirstFig6 \/ RunCloseup

SpecFirst == Init /\ [][NextFirst]_vars

(***************************************************************************)
(* Vocabulary of the properties.                                           *)
(***************************************************************************)
\* The sample indices, the scanned indices and the segments, counted from 0.
Samples == 0..(Len(y) - 1)
Scanned == 0..(Len(y) - 2)

\* The positions of all_out that hold a crossing of segment index i.
CrossingsAt(i) == {k \in DOMAIN all_out : all_out[k].i = i}

\* Strictly opposite sign, both nonzero.
OppositeSign(a, b) == (a < 0 /\ b > 0) \/ (a > 0 /\ b < 0)
SameSign(a, b) == (a < 0 /\ b < 0) \/ (a > 0 /\ b > 0)

StrictlyAscending(s) == \A k \in 1..(Len(s) - 1) : s[k] < s[k + 1]

AllCalled == "ALL" \in called
FirstCalled == "FIRST" \in called
LastCalled == "LAST" \in called

\* The one crossing of segment index i is EXACT, at x[i].
OneExactAt(i) ==
    /\ Cardinality(CrossingsAt(i)) = 1
    /\ \A k \in CrossingsAt(i) :
           all_out[k] = [x0 |-> At(x, i), i |-> i, kind |-> "EXACT"]

(***************************************************************************)
(* C1.  As stated: every sample i in 0..len-1 with y[i] = 0 has exactly    *)
(* one crossing in the result of ALL, EXACT, at x[i], with index i.        *)
(* The scan stops at len-2, so a zero at the last sample has none.         *)
(***************************************************************************)
C1_AsStated ==
    AllCalled => \A i \in Samples : At(y, i) = 0 => OneExactAt(i)

\* C1, amended: every sample i in 0..len-2 with y[i] = 0 has exactly one
\* crossing in the result of ALL, EXACT, at x[i], with index i; no crossing
\* has the index of the last sample, whatever its y.
C1_ExactZeroScanned ==
    AllCalled =>
        /\ \A i \in Scanned : At(y, i) = 0 => OneExactAt(i)
        /\ \A k \in DOMAIN all_out : all_out[k].i \in Scanned

C1_Witness ==
    /\ AllCalled
    /\ Len(y) >= 2
    /\ At(y, Len(y) - 1) = 0
    /\ \E i \in Scanned : At(y, i) = 0 /\ CrossingsAt(i) # {}

(***************************************************************************)
(* C2.  Every segment i whose y values are nonzero and of strictly         *)
(* opposite sign has exactly one crossing in the result of ALL,            *)
(* INTERPOLATED, at x[i] + (x[i+1]-x[i]) * (-y[i]) / (y[i+1]-y[i]); two    *)
(* samples (a,-1), (b,+1) cross at a + (b-a)/2; the four-sample example    *)
(* crosses at 0.5, 1.5, 2.5.                                               *)
(***************************************************************************)
C2_SignChangeInterpolated ==
    AllCalled =>
        /\ \A i \in Scanned :
               OppositeSign(At(y, i), At(y, i + 1)) =>
                   /\ Cardinality(CrossingsAt(i)) = 1
                   /\ \A k \in CrossingsAt(i) :
                          all_out[k] =
                              [x0 |-> Interp(At(x, i), At(x, i + 1),
                                             At(y, i), At(y, i + 1)),
                               i |-> i, kind |-> "INTERPOLATED"]
        /\ (y = TwoSampleY /\ Len(x) = 2) =>
               /\ Len(all_out) = 1
               /\ all_out[1].x0 = FAdd(x[1], FDiv(FSub(x[2], x[1]), 2 * Scale))
        /\ (x = ExampleX /\ y = ExampleY) =>
               /\ Len(all_out) = 3
               /\ 2 * all_out[1].x0 = Scale
               /\ 2 * all_out[2].x0 = 3 * Scale
               /\ 2 * all_out[3].x0 = 5 * Scale

(***************************************************************************)
(* C3.  A series whose y values are all strictly positive or all strictly  *)
(* negative has no crossing: ALL returns the empty list, FIRST and LAST    *)
(* return None.  A segment whose y values are nonzero and of the same sign *)
(* contributes no crossing.                                                *)
(***************************************************************************)
OneSigned ==
    \/ \A i \in Samples : At(y, i) > 0
    \/ \A i \in Samples : At(y, i) < 0

C3_NoCrossingWithoutSignChange ==
    /\ OneSigned =>
           /\ ~raised
           /\ all_out = <<>>
           /\ first_zc = None
           /\ last_zc = None
    /\ AllCalled =>
           \A i \in Scanned :
               SameSign(At(y, i), At(y, i + 1)) => CrossingsAt(i) = {}

C3_Witness ==
    /\ OneSigned
    /\ Len(y) = MaxLen
    /\ called = {"ALL", "FIRST", "LAST"}

(***************************************************************************)
(* C4.  FIRST returns the x0 of the first element of the result of ALL,    *)
(* which has the lowest segment index, and None exactly when ALL returns   *)
(* the empty list.                                                         *)
(***************************************************************************)
C4_FirstIsHeadOfAll ==
    (AllCalled /\ FirstCalled) =>
        /\ first_zc = None <=> all_out = <<>>
        /\ all_out # <<>> =>
               /\ first_zc = Some(all_out[1].x0)
               /\ \A k \in DOMAIN all_out : all_out[1].i <= all_out[k].i

C4_Witness ==
    /\ AllCalled
    /\ FirstCalled
    /\ Len(all_out) >= 2
    /\ all_out[1].x0 # all_out[2].x0

(***************************************************************************)
(* C5.  LAST returns the x0 of the last element of the result of ALL,      *)
(* which has the greatest segment index, and None exactly when ALL returns *)
(* the empty list.                                                         *)
(***************************************************************************)
C5_LastIsLastOfAll ==
    (AllCalled /\ LastCalled) =>
        /\ last_zc = None <=> all_out = <<>>
        /\ all_out # <<>> =>
               /\ last_zc = Some(all_out[Len(all_out)].x0)
               /\ \A k \in DOMAIN all_out :
                      all_out[k].i <= all_out[Len(all_out)].i

C5_Witness ==
    /\ AllCalled
    /\ LastCalled
    /\ Len(all_out) >= 2
    /\ all_out[1].x0 # all_out[Len(all_out)].x0

(***************************************************************************)
(* C6.  As stated: a series with no sign change (no two consecutive        *)
(* samples nonzero and of strictly opposite sign) makes FIRST and LAST     *)
(* return None.  A scanned sample that is exactly zero is returned too.    *)
(***************************************************************************)
NoSignChange ==
    \A i \in Scanned : ~OppositeSign(At(y, i), At(y, i + 1))

NoScannedZero == \A i \in Scanned : At(y, i) # 0

C7_AscendingX0 ==
    (AllCalled /\ Sorted(x)) =>
        \A k \in 1..(Len(all_out) - 1) :
            /\ all_out[k].i < all_out[k + 1].i
            /\ all_out[k].x0 <= all_out[k + 1].x0
            /\ StrictlyAscending(x) => all_out[k].x0 < all_out[k + 1].x0

(***************************************************************************)
(* C8.  A series of length 0 or 1, whatever its y, gives the empty list    *)
(* from ALL and None from FIRST and LAST, and no call raises IndexError.   *)
(***************************************************************************)
C8_ShortSeriesEmpty ==
    Len(y) <= 1 =>
        /\ ~raised
        /\ all_out = <<>>
        /\ first_zc = None
        /\ last_zc = None

C8_Witness ==
    /\ Len(y) = 1
    /\ y[1] = 0
    /\ called = {"ALL", "FIRST", "LAST"}

(***************************************************************************)
(* C9.  A zero sample i whose neighbours i-1 and i+1 are nonzero gives     *)
(* exactly one crossing for the segments (i-1,i) and (i,i+1) together:     *)
(* the EXACT crossing at x[i]; neither segment gives an INTERPOLATED one.  *)
(***************************************************************************)
IsolatedZero(i) ==
    /\ i - 1 \in Samples
    /\ i + 1 \in Samples
    /\ At(y, i) = 0
    /\ At(y, i - 1) # 0
    /\ At(y, i + 1) # 0

C9_IsolatedZeroOnce ==
    AllCalled =>
        \A i \in Samples :
            IsolatedZero(i) =>
                /\ CrossingsAt(i - 1) = {}
                /\ OneExactAt(i)

C9_Witness ==
    /\ AllCalled
    /\ x = ExactZeroX
    /\ y = ExactZeroY
    /\ all_out = <<[x0 |-> Scale, i |-> 1, kind |-> "EXACT"]>>

(***************************************************************************)
(* C10.  A call changes neither x nor y, and a call repeated on the same   *)
(* series returns what the call before it returned.                        *)
(***************************************************************************)
C10_RepeatedCallSameResult ==
    [][/\ x' = x
       /\ y' = y
       /\ AllCalled => all_out' = all_out
       /\ FirstCalled => first_zc' = first_zc
       /\ LastCalled => last_zc' = last_zc]_vars

C10_Witness ==
    /\ repeats = MaxRepeats
    /\ called = {"ALL", "FIRST", "LAST"}
    /\ Len(all_out) >= 2
    /\ last_zc # first_zc

(***************************************************************************)
(* C11.  On a zero-width segment (x[i] = x[i+1]) whose y values are        *)
(* nonzero and of strictly opposite sign, the divisor y[i+1] - y[i] is     *)
(* not zero, and the x0 the scan returns for the segment is x[i] exactly.  *)
(***************************************************************************)
ZeroWidthSignChange(i) ==
    /\ i \in Scanned
    /\ At(x, i) = At(x, i + 1)
    /\ OppositeSign(At(y, i), At(y, i + 1))

C11_ZeroWidthExact ==
    \A i \in Scanned :
        ZeroWidthSignChange(i) =>
            /\ FSub(At(y, i + 1), At(y, i)) # 0
            /\ AllCalled =>
                   \A k \in CrossingsAt(i) :
                       /\ all_out[k].kind = "INTERPOLATED"
                       /\ all_out[k].x0 = At(x, i)
            /\ (FirstCalled /\ i = 0
                    /\ SignFlip(At(y, i), At(y, i + 1))) =>
                   first_zc = Some(At(x, i))
            /\ (LastCalled /\ i = Len(y) - 2
                    /\ SignFlip(At(y, i), At(y, i + 1))) =>
                   last_zc = Some(At(x, i))

C11_Witness ==
    /\ called = {"ALL", "FIRST", "LAST"}
    /\ Len(y) = 2
    /\ ZeroWidthSignChange(0)
    /\ CrossingsAt(0) # {}
    /\ first_zc = Some(At(x, 0))
    /\ last_zc = first_zc

(***************************************************************************)
(* C12.  For strictly ascending x, every crossing (x0, i) a scan returns   *)
(* is a zero of the line through (x[i], y[i]) and (x[i+1], y[i+1]) with    *)
(* x[i] <= x0 < x[i+1]; an EXACT crossing has x0 = x[i], an INTERPOLATED   *)
(* one lies strictly inside the segment.                                   *)
(***************************************************************************)
\* The line through the two samples of segment i is zero at v (in exact
\* arithmetic, cleared of the division).
LineZeroAt(i, v) ==
    At(y, i) * (At(x, i + 1) - At(x, i))
        + (At(y, i + 1) - At(y, i)) * (v - At(x, i)) = 0

InSegment(i, v) == At(x, i) <= v /\ v < At(x, i + 1)

C12_ZeroOfInterpolant ==
    StrictlyAscending(x) =>
        /\ AllCalled =>
               \A k \in DOMAIN all_out :
                   LET c == all_out[k]
                   IN  /\ c.i \in Scanned
                       /\ InSegment(c.i, c.x0)
                       /\ LineZeroAt(c.i, c.x0)
                       /\ c.kind = "EXACT" => c.x0 = At(x, c.i)
                       /\ c.kind = "INTERPOLATED" => c.x0 > At(x, c.i)
        /\ (FirstCalled /\ first_zc # None) =>
               \E i \in Scanned :
                   InSegment(i, first_zc[1]) /\ LineZeroAt(i, first_zc[1])
        /\ (LastCalled /\ last_zc # None) =>
               \E i \in Scanned :
                   InSegment(i, last_zc[1]) /\ LineZeroAt(i, last_zc[1])

(***************************************************************************)
(* C13.  The four first-crossing implementations return the same result    *)
(* (the same x0, or None) on every series, exact-zero samples included.    *)
(***************************************************************************)
FirstScripts == {"FIRST", "FIRST_AE_RMST", "FIRST_FIG6", "FIRST_CLOSEUP"}

ResultOf(mode) ==
    IF mode = "FIRST" THEN first_zc
    ELSE IF mode = "FIRST_AE_RMST" THEN zc_ae_rmst
    ELSE IF mode = "FIRST_FIG6" THEN zc_fig6
    ELSE zc_closeup

====
